---- MODULE Spec2Model ----
(***************************************************************************)
(* NestNode/RustDemo: the generic keyed store (Container), the REST        *)
(* handlers layered on it (todos, rest, node) and the heartbeat presence   *)
(* tracker with its background cleanup task.                               *)
(*                                                                         *)
(* Encoding.  Strings are numbered: an id is a number 1..NumIds, a todo    *)
(* text a number 0..MaxText with 0 the empty string (String::new()), a     *)
(* JSON value a number 0..MaxData with 0 Value::Null (Value::default()).   *)
(* Option<T> is a set with at most one element.  A HashMap is a function   *)
(* whose DOMAIN is the set of keys present.                                *)
(***************************************************************************)
EXTENDS Integers, Sequences, FiniteSets, TLC

\* ------------------------------------------------------------------ bounds
NumIds == 2
NumHandlers == 2
NumThreads == 2
MaxTime == 6
Horizon == 11
NumLetters == 0
HashSpace == 2
MaxText == 0
MaxData == 1
MaxPage == 2

\* ------------------------------------------------------- program constants
OK == 200
CREATED == 201
NO_CONTENT == 204
FORBIDDEN == 403
NOT_FOUND == 404
CONFLICT == 409
INTERVAL_SECS == 5
TIMEOUT_SECS == 5

VARIABLES
    router,     \* the router whose traffic the behaviour follows
    store,      \* kind -> HashMap<String, Item>: the Container of each router
    req,        \* the request the REST layer handled last
    resp,       \* the response it returned
    deleted,    \* history: kind -> the keys a DELETE removed and nothing re-inserted
    order       \* the order in which the routed store's HashMap iterates its
                \* keys, as far as the responses so far determine it

VARIABLES
    user_activity_time,   \* ONLINE_STATE: session id -> Instant of the last heartbeat
    user_activity_count,  \* ONLINE_STATE: the AtomicU32 counter (far below 2^32 here)
    lock,                 \* holder of user_activity_time's write lock, or "free"
    clock,                \* Instant::now(), in seconds
    hb,                   \* handler -> position and locals of a get_heartbeat call
    online_user_count,    \* "online_user_count" of the response sent last
    cleanup,              \* position and locals of the cleanup task
    next_tick,            \* deadline of the cleanup interval's next tick
    touched               \* history: the session ids inserted since the last pass

VARIABLES
    container,  \* Container.data: the HashMap behind the RwLock, a value in two halves
    rwlock,     \* the RwLock: its writer, if any, and its readers
    th,         \* thread -> position and locals of its Container call
    returned,   \* the call that returned last, and what it returned
    committed,  \* history: the map as the completed writes leave it
    last_put    \* history: key -> the value of the put_by_id that took the write
                \* lock last, while no delete_by_id has taken it since

VARIABLES
    post,       \* POST handler -> its position between the lookup and the insert
    patch       \* PATCH or DELETE handler -> its position and locals

VARIABLES
    last_hb     \* history: the headers and the session id of the last heartbeat

postVars == <<post, patch>>
keyVars == <<last_hb>>
restVars == <<router, store, req, resp, deleted, order>>
contVars == <<container, rwlock, th, returned, committed, last_put>>
presVars == <<user_activity_time, user_activity_count, lock, clock, hb,
              online_user_count, cleanup, next_tick, touched>>
vars == <<restVars, presVars, contVars, postVars, keyVars>>

\* ------------------------------------------------------------------ Option
None == {}
Some(x) == {x}
is_none(o) == o = {}
unwrap(o) == CHOOSE x \in o : TRUE
unwrap_or(o, d) == IF o = {} THEN d ELSE CHOOSE x \in o : TRUE
Option(S) == {None} \cup {Some(x) : x \in S}

Ids == 1..NumIds
Texts == 0..MaxText
Values == 0..MaxData
Null == 0
Kinds == {"todos", "rest", "node"}

\* ---------------------------------------------------------------- Container
\* Faulty variant: the value is inserted only under a vacant key (entry().or_insert).
HashMap_insert_if_vacant(map, key, value) ==
    [k \in DOMAIN map \cup {key} |-> IF k \in DOMAIN map THEN map[k] ELSE value]

\* HashMap::insert: the map with key bound to value.
HashMap_insert(map, key, value) ==
    [k \in DOMAIN map \cup {key} |-> IF k = key THEN value ELSE map[k]]

\* Faulty variant: the value is looked up and the entry is left in the map.
HashMap_remove_kept(map, key) == map

\* HashMap::remove: the map without key.
HashMap_remove(map, key) == [k \in DOMAIN map \ {key} |-> map[k]]

get_by_id(map, key) == IF key \in DOMAIN map THEN Some(map[key]) ELSE None

\* get_all: a clone of the map, which iterates in the order of the original.
get_all(map) == map

\* The orders a set of keys can be iterated in, tabulated for every key set.
AllOrders ==
    [keys \in SUBSET Ids |->
        {f \in [1..Cardinality(keys) -> keys] : \A k \in keys : \E i \in DOMAIN f : f[i] = k}]
Orders(keys) == AllOrders[keys]

RECURSIVE Without(_, _)
Without(seq, keys) ==
    IF seq = << >> THEN << >>
    ELSE IF Head(seq) \in keys THEN Without(Tail(seq), keys)
         ELSE <<Head(seq)>> \o Without(Tail(seq), keys)

\* Faulty variant: the clone is hashed afresh on every call.
HashMap_iter_rehashed(iter, map) == Orders(DOMAIN map)

\* The orders in which the map can iterate.  The order is that of the
\* table's buckets, which the hasher's random keys and the inserts so far
\* decide: until an iteration has shown it (iter = None) it can be any order
\* of the keys; after that it is the order shown.
HashMap_iter(iter, map) == IF iter = None THEN Orders(DOMAIN map) ELSE iter

\* What is known of the order after a call that leaves the map as `map`: an
\* overwrite and a removal leave the other entries in their buckets; an
\* insert of a new key can grow and rehash the table, into any order.
HashMap_layout(iter, map) ==
    IF iter = None THEN None
    ELSE LET seq == unwrap(iter)
             keys == {seq[i] : i \in DOMAIN seq}
         IN IF DOMAIN map \subseteq keys
            THEN Some(Without(seq, keys \ DOMAIN map))
            ELSE None

\* HashMap::values(): the values in iteration order.
values(map, iter) == [i \in DOMAIN iter |-> map[iter[i]]]

\* Faulty variant: the offset is not applied.
skip_nothing(seq, n) == seq

\* Iterator::skip(n).
skip(seq, n) == SubSeq(seq, n + 1, Len(seq))

\* Iterator::take(n).
take(seq, n) == SubSeq(seq, 1, IF n < Len(seq) THEN n ELSE Len(seq))

\* .skip(offset.unwrap_or(0)).take(limit.unwrap_or(usize::MAX)): no sequence
\* here is as long as usize::MAX, so without a limit nothing is cut off.
Page(seq, pagination) ==
    LET skipped == skip(seq, unwrap_or(pagination.offset, 0))
    IN IF pagination.limit = None THEN skipped
       ELSE take(skipped, unwrap(pagination.limit))

get_is(map, key) == key \in DOMAIN map

put_by_id(map, key, value) ==
    [map |-> HashMap_insert(map, key, value), ret |-> get_by_id(map, key)]

delete_by_id(map, key) ==
    [map |-> HashMap_remove(map, key), ret |-> get_by_id(map, key)]

\* ------------------------------------------------------------ request types
TodoInput == [text : Option(Texts), completed : Option(BOOLEAN)]
DataInput == [data : Option(Values)]
PathIds == Option(Ids)
GetPagination == [offset : Option(0..MaxPage), limit : Option(0..MaxPage)]

\* GetPagination::default(): a request without a query string.
NoPagination == [offset |-> None, limit |-> None]

\* Uuid::new_v4(): a 128-bit random id, taken never to meet a key in use.
Uuid_new_v4(map) == Ids \ DOMAIN map

\* The id a PUT or POST works on: the path's, or a generated one.
ResolveId(path, map) == IF path = None THEN Uuid_new_v4(map) ELSE path

Request(kind, verb, path, id, input) ==
    [kind |-> kind, verb |-> verb, path |-> path, id |-> id, input |-> input]

Response(status, body) == [status |-> status, body |-> body]

EmptyMap == [k \in {} |-> 0]

InitRest ==
    /\ router = "none"
    /\ store = [kind \in Kinds |-> EmptyMap]
    /\ req = Request("none", "none", None, 0, [data |-> None])
    /\ resp = Response(0, None)
    /\ deleted = [kind \in Kinds |-> {}]
    /\ order = None

\* ------------------------------------------------------------------- todos
TodoItem(id, input) ==
    [id |-> id, text |-> unwrap_or(input.text, 0),
     completed |-> unwrap_or(input.completed, FALSE)]

todos_id_get(path, pagination) ==
    /\ IF path = None
       THEN \E iter \in HashMap_iter(order, store["todos"]) :
               /\ req' = Request("todos", "GET", path, 0, pagination)
               /\ resp' = Response(OK, Page(values(get_all(store["todos"]), iter),
                                            pagination))
               /\ order' = Some(iter)
       ELSE LET id == unwrap(path)
                result == get_by_id(store["todos"], id)
            IN /\ req' = Request("todos", "GET", path, id, pagination)
               /\ resp' = IF result = None THEN Response(NOT_FOUND, None)
                                          ELSE Response(OK, result)
               /\ order' = order
    /\ UNCHANGED store

todos_id_put(path, input) ==
    \E id \in ResolveId(path, store["todos"]) :
        LET item == TodoItem(id, input)
            r == put_by_id(store["todos"], id, item)
        IN /\ store' = [store EXCEPT !["todos"] = r.map]
           /\ req' = Request("todos", "PUT", path, id, input)
           /\ resp' = Response(CREATED, Some(item))

todos_id_post(path, input) ==
    \E id \in ResolveId(path, store["todos"]) :
        LET result == get_by_id(store["todos"], id)
            item == TodoItem(id, input)
        IN /\ req' = Request("todos", "POST", path, id, input)
           /\ IF result = None
              THEN /\ store' = [store EXCEPT !["todos"] =
                                    put_by_id(store["todos"], id, item).map]
                   /\ resp' = Response(CREATED, Some(item))
              ELSE /\ resp' = Response(CONFLICT, result)
                   /\ UNCHANGED store

todos_id_patch(id, input) ==
    LET old_value == get_by_id(store["todos"], id)
        new_value == TodoItem(id, input)
    IN /\ req' = Request("todos", "PATCH", Some(id), id, input)
       /\ IF is_none(old_value)
          THEN /\ resp' = Response(NOT_FOUND, None)
               /\ UNCHANGED store
          ELSE /\ store' = [store EXCEPT !["todos"] =
                                put_by_id(store["todos"], id, new_value).map]
               /\ resp' = Response(OK, Some(new_value))

\* Faulty variant: the DELETE clears the store (_delete_all).
todos_id_delete_clearing(id) ==
    LET r == delete_by_id(store["todos"], id)
    IN /\ store' = [store EXCEPT !["todos"] = IF r.ret # None THEN EmptyMap ELSE r.map]
       /\ req' = Request("todos", "DELETE", Some(id), id, [data |-> None])
       /\ resp' = IF r.ret # None THEN Response(NO_CONTENT, None)
                                  ELSE Response(NOT_FOUND, None)

todos_id_delete(id) ==
    LET r == delete_by_id(store["todos"], id)
    IN /\ store' = [store EXCEPT !["todos"] = r.map]
       /\ req' = Request("todos", "DELETE", Some(id), id, [data |-> None])
       /\ resp' = IF r.ret # None THEN Response(NO_CONTENT, None)
                                  ELSE Response(NOT_FOUND, None)

\* -------------------------------------------------------------------- rest
RestItem(id, input) == [id |-> id, data |-> unwrap_or(input.data, Null)]

\* Faulty variant: an item read by id is taken out of the store.
rest_id_get_taking(path, pagination) ==
    IF path = None
    THEN \E iter \in HashMap_iter(order, store["rest"]) :
            /\ req' = Request("rest", "GET", path, 0, pagination)
            /\ resp' = Response(OK, Page(values(get_all(store["rest"]), iter),
                                         pagination))
            /\ order' = Some(iter)
            /\ UNCHANGED store
    ELSE LET r == delete_by_id(store["rest"], unwrap(path))
         IN /\ req' = Request("rest", "GET", path, unwrap(path), pagination)
            /\ resp' = IF r.ret = None THEN Response(NOT_FOUND, None)
                                       ELSE Response(OK, r.ret)
            /\ order' = order
            /\ store' = [store EXCEPT !["rest"] = r.map]

rest_id_get(path, pagination) ==
    /\ IF path = None
       THEN \E iter \in HashMap_iter(order, store["rest"]) :
               /\ req' = Request("rest", "GET", path, 0, pagination)
               /\ resp' = Response(OK, Page(values(get_all(store["rest"]), iter),
                                            pagination))
               /\ order' = Some(iter)
       ELSE LET id == unwrap(path)
                result == get_by_id(store["rest"], id)
            IN /\ req' = Request("rest", "GET", path, id, pagination)
               /\ resp' = IF result = None THEN Response(NOT_FOUND, None)
                                          ELSE Response(OK, result)
               /\ order' = order
    /\ UNCHANGED store

\* Faulty variant: a stored item is kept, the PUT still answering Created.
rest_id_put_keeps_stored(path, input) ==
    \E id \in ResolveId(path, store["rest"]) :
        LET item == RestItem(id, input)
            r == put_by_id(store["rest"], id, item)
        IN /\ store' = [store EXCEPT !["rest"] =
                            IF r.ret = None THEN r.map ELSE store["rest"]]
           /\ req' = Request("rest", "PUT", path, id, input)
           /\ resp' = Response(CREATED, Some(item))

rest_id_put(path, input) ==
    \E id \in ResolveId(path, store["rest"]) :
        LET item == RestItem(id, input)
            r == put_by_id(store["rest"], id, item)
        IN /\ store' = [store EXCEPT !["rest"] = r.map]
           /\ req' = Request("rest", "PUT", path, id, input)
           /\ resp' = Response(CREATED, Some(item))

rest_id_post(path, input) ==
    \E id \in ResolveId(path, store["rest"]) :
        LET result == get_by_id(store["rest"], id)
            item == RestItem(id, input)
        IN /\ req' = Request("rest", "POST", path, id, input)
           /\ IF result = None
              THEN /\ store' = [store EXCEPT !["rest"] =
                                    put_by_id(store["rest"], id, item).map]
                   /\ resp' = Response(CREATED, Some(item))
              ELSE /\ resp' = Response(CONFLICT, result)
                   /\ UNCHANGED store

\* Faulty variant: the item is written without the check for a stored one.
rest_id_patch_upsert(id, input) ==
    LET new_value == RestItem(id, input)
    IN /\ req' = Request("rest", "PATCH", Some(id), id, input)
       /\ store' = [store EXCEPT !["rest"] =
                        put_by_id(store["rest"], id, new_value).map]
       /\ resp' = Response(OK, Some(new_value))

rest_id_patch(id, input) ==
    LET old_value == get_by_id(store["rest"], id)
        new_value == RestItem(id, input)
    IN /\ req' = Request("rest", "PATCH", Some(id), id, input)
       /\ IF is_none(old_value)
          THEN /\ resp' = Response(NOT_FOUND, None)
               /\ UNCHANGED store
          ELSE /\ store' = [store EXCEPT !["rest"] =
                                put_by_id(store["rest"], id, new_value).map]
               /\ resp' = Response(OK, Some(new_value))

\* Faulty variant: a DELETE without an id clears the store (_delete_all).
rest_id_delete_all(path) ==
    /\ req' = Request("rest", "DELETE", path, unwrap_or(path, 0), [data |-> None])
    /\ IF path = None
       THEN /\ resp' = Response(NO_CONTENT, None)
            /\ store' = [store EXCEPT !["rest"] = EmptyMap]
       ELSE LET r == delete_by_id(store["rest"], unwrap(path))
            IN /\ store' = [store EXCEPT !["rest"] = r.map]
               /\ resp' = IF r.ret # None THEN Response(NO_CONTENT, None)
                                          ELSE Response(NOT_FOUND, None)

rest_id_delete(path) ==
    /\ req' = Request("rest", "DELETE", path, unwrap_or(path, 0), [data |-> None])
    /\ IF path = None
       THEN /\ resp' = Response(FORBIDDEN, None)
            /\ UNCHANGED store
       ELSE LET r == delete_by_id(store["rest"], unwrap(path))
            IN /\ store' = [store EXCEPT !["rest"] = r.map]
               /\ resp' = IF r.ret # None THEN Response(NO_CONTENT, None)
                                          ELSE Response(NOT_FOUND, None)

\* -------------------------------------------------------------------- node
\* Node::factory: both arms build a BasicNode without links.
\* Faulty variant: the node is built with an empty id.
factory_blank_id(id, data) ==
    [id |-> 0, content |-> unwrap_or(data, Null), next_id |-> None, prev_id |-> None]

factory(id, data) ==
    [id |-> id, content |-> unwrap_or(data, Null), next_id |-> None, prev_id |-> None]

\* Node::factory_put: build the node and put it, overwriting.
factory_put(map, id, data) ==
    LET new_value == factory(id, data)
    IN [map |-> put_by_id(map, id, new_value).map, item |-> new_value]

\* Faulty variant: the node is put without looking for a stored one.
factory_post_overwrite(map, id, data) ==
    [map |-> put_by_id(map, id, factory(id, data)).map, created |-> TRUE,
     item |-> factory(id, data)]

\* Node::factory_post: (false, stored node) when the id is taken.
factory_post(map, id, data) ==
    LET old_value == get_by_id(map, id)
        new_value == factory(id, data)
    IN IF old_value # None
       THEN [map |-> map, created |-> FALSE, item |-> unwrap(old_value)]
       ELSE [map |-> put_by_id(map, id, new_value).map, created |-> TRUE,
             item |-> new_value]

\* Faulty variant: a missing node is answered Ok with an empty body.
node_id_get_ok_when_missing(path, pagination) ==
    /\ IF path = None
       THEN \E iter \in HashMap_iter(order, store["node"]) :
               /\ req' = Request("node", "GET", path, 0, pagination)
               /\ resp' = Response(OK, Page(values(get_all(store["node"]), iter),
                                            pagination))
               /\ order' = Some(iter)
       ELSE /\ req' = Request("node", "GET", path, unwrap(path), pagination)
            /\ resp' = Response(OK, get_by_id(store["node"], unwrap(path)))
            /\ order' = order
    /\ UNCHANGED store

node_id_get(path, pagination) ==
    /\ IF path = None
       THEN \E iter \in HashMap_iter(order, store["node"]) :
               /\ req' = Request("node", "GET", path, 0, pagination)
               /\ resp' = Response(OK, Page(values(get_all(store["node"]), iter),
                                            pagination))
               /\ order' = Some(iter)
       ELSE LET id == unwrap(path)
                result == get_by_id(store["node"], id)
            IN /\ req' = Request("node", "GET", path, id, pagination)
               /\ resp' = IF result = None THEN Response(NOT_FOUND, None)
                                          ELSE Response(OK, result)
               /\ order' = order
    /\ UNCHANGED store

node_id_put(path, input) ==
    \E id \in ResolveId(path, store["node"]) :
        LET r == factory_put(store["node"], id, input.data)
        IN /\ store' = [store EXCEPT !["node"] = r.map]
           /\ req' = Request("node", "PUT", path, id, input)
           /\ resp' = Response(CREATED, Some(r.item))

node_id_post(path, input) ==
    \E id \in ResolveId(path, store["node"]) :
        LET r == factory_post(store["node"], id, input.data)
        IN /\ store' = [store EXCEPT !["node"] = r.map]
           /\ req' = Request("node", "POST", path, id, input)
           /\ resp' = IF r.created = FALSE THEN Response(CONFLICT, Some(r.item))
                                           ELSE Response(CREATED, Some(r.item))

node_id_patch(id, input) ==
    LET old_value == get_by_id(store["node"], id)
    IN /\ req' = Request("node", "PATCH", Some(id), id, input)
       /\ IF is_none(old_value)
          THEN /\ resp' = Response(NOT_FOUND, None)
               /\ UNCHANGED store
          ELSE LET r == factory_put(store["node"], id, input.data)
               IN /\ store' = [store EXCEPT !["node"] = r.map]
                  /\ resp' = Response(OK, Some(r.item))

node_id_delete(id) ==
    LET r == delete_by_id(store["node"], id)
    IN /\ store' = [store EXCEPT !["node"] = r.map]
       /\ req' = Request("node", "DELETE", Some(id), id, [data |-> None])
       /\ resp' = IF r.ret # None THEN Response(NO_CONTENT, None)
                                  ELSE Response(NOT_FOUND, None)

\* ------------------------------------------------- the REST service, serial
\* One request is handled at a time, each handler from call to response.
\* The requests here carry an id or a body; the list requests are NextList's.
\* The history variable follows the keys that leave and enter each container.
\* main.rs merges three routers; each factory builds its own Container and its
\* handlers receive only that one as State.  A behaviour follows the traffic
\* of one of them, the one its first request goes to.
Route(kind) == router \in {"none", kind} /\ router' = kind

History ==
    /\ deleted' = [kind \in Kinds |->
                      (deleted[kind] \cup (DOMAIN store[kind] \ DOMAIN store'[kind]))
                          \ DOMAIN store'[kind]]
    /\ req'.verb # "GET" => order' = HashMap_layout(order, store'[router'])
    /\ UNCHANGED <<presVars, contVars, postVars, keyVars>>

NextRest ==
    \/ \E id \in Ids :
          Route("todos") /\ todos_id_get(Some(id), NoPagination) /\ History
    \/ \E path \in PathIds, input \in TodoInput :
          Route("todos") /\ todos_id_put(path, input) /\ History
    \/ \E path \in PathIds, input \in TodoInput :
          Route("todos") /\ todos_id_post(path, input) /\ History
    \/ \E id \in Ids, input \in TodoInput :
          Route("todos") /\ todos_id_patch(id, input) /\ History
    \/ \E id \in Ids : Route("todos") /\ todos_id_delete(id) /\ History
    \/ \E id \in Ids :
          Route("rest") /\ rest_id_get(Some(id), NoPagination) /\ History
    \/ \E path \in PathIds, input \in DataInput :
          Route("rest") /\ rest_id_put(path, input) /\ History
    \/ \E path \in PathIds, input \in DataInput :
          Route("rest") /\ rest_id_post(path, input) /\ History
    \/ \E id \in Ids, input \in DataInput :
          Route("rest") /\ rest_id_patch(id, input) /\ History
    \/ \E path \in PathIds : Route("rest") /\ rest_id_delete(path) /\ History
    \/ \E id \in Ids :
          Route("node") /\ node_id_get(Some(id), NoPagination) /\ History
    \/ \E path \in PathIds, input \in DataInput :
          Route("node") /\ node_id_put(path, input) /\ History
    \/ \E path \in PathIds, input \in DataInput :
          Route("node") /\ node_id_post(path, input) /\ History
    \/ \E id \in Ids, input \in DataInput :
          Route("node") /\ node_id_patch(id, input) /\ History
    \/ \E id \in Ids : Route("node") /\ node_id_delete(id) /\ History

\* The GET requests, with and without an id and over every query, on stores
\* filled and emptied by PUTs and DELETEs with an id.
\* The queries of a GET: read only by the branch without an id.
QueryOf(path) == IF path = None THEN GetPagination ELSE {NoPagination}

NoTodoInput == [text |-> None, completed |-> None]
NoDataInput == [data |-> None]

NextList ==
    \/ \E path \in PathIds : \E pagination \in QueryOf(path) :
          Route("todos") /\ todos_id_get(path, pagination) /\ History
    \/ \E id \in Ids : Route("todos") /\ todos_id_put(Some(id), NoTodoInput) /\ History
    \/ \E id \in Ids : Route("todos") /\ todos_id_delete(id) /\ History
    \/ \E path \in PathIds : \E pagination \in QueryOf(path) :
          Route("rest") /\ rest_id_get(path, pagination) /\ History
    \/ \E id \in Ids : Route("rest") /\ rest_id_put(Some(id), NoDataInput) /\ History
    \/ \E id \in Ids : Route("rest") /\ rest_id_delete(Some(id)) /\ History
    \/ \E path \in PathIds : \E pagination \in QueryOf(path) :
          Route("node") /\ node_id_get(path, pagination) /\ History
    \/ \E id \in Ids : Route("node") /\ node_id_put(Some(id), NoDataInput) /\ History
    \/ \E id \in Ids : Route("node") /\ node_id_delete(id) /\ History


\* ================================================================ heartbeat
\* Header values are one-character strings: ':' (COLON) or a letter; the
\* default "unknown-ip" is a string no header value equals.
COLON == 0
UNKNOWN_IP == <<NumLetters + 1>>
HeaderStrs == {<<COLON>>} \cup {<<letter>> : letter \in 1..NumLetters}
HeaderMap == [x_forwarded_for : Option(HeaderStrs), user_agent : Option(HeaderStrs),
              accept_language : Option(HeaderStrs)]

\* format!("{}:{}:{}", ip, user_agent, accept_language)
Fingerprint(headers) ==
    unwrap_or(headers.x_forwarded_for, UNKNOWN_IP) \o <<COLON>>
        \o unwrap_or(headers.user_agent, << >>) \o <<COLON>>
        \o unwrap_or(headers.accept_language, << >>)

\* DefaultHasher: SipHash is not computed; a fixed function of the string into
\* a finite space of session ids stands for it, collisions included.
RECURSIVE Hash(_)
Hash(str) ==
    IF str = << >> THEN 0
    ELSE (3 * Hash(SubSeq(str, 1, Len(str) - 1)) + str[Len(str)] + 1) % HashSpace

\* Faulty variant: the number of sessions recorded is hashed in as well.
SessionId_with_count(headers) ==
    (Hash(Fingerprint(headers)) + Cardinality(DOMAIN user_activity_time)) % HashSpace

SessionId(headers) == Hash(Fingerprint(headers))

Handlers == 1..NumHandlers

InitPresence ==
    /\ user_activity_time = EmptyMap
    /\ user_activity_count = 0
    /\ lock = "free"
    /\ clock = 0
    /\ hb = [c \in Handlers |-> [pc |-> "idle", is_new |-> FALSE]]
    /\ online_user_count = 0
    /\ cleanup = [pc |-> "tick", before_count |-> 0, now |-> None]
    /\ next_tick = 0
    /\ touched = {}

\* Faulty variant: the guard is dropped right after the insert, before the counter.
hb_insert_guard_dropped(c, headers) ==
    /\ hb[c].pc = "idle"
    /\ lock = "free"
    /\ LET id == SessionId(headers)
       IN /\ user_activity_time' = HashMap_insert(user_activity_time, id, clock)
          /\ hb' = [hb EXCEPT ![c] =
                       [pc |-> "count",
                        is_new |-> is_none(get_by_id(user_activity_time, id))]]
          /\ touched' = touched \cup {id}
    /\ lock' = "free"
    /\ UNCHANGED <<user_activity_count, clock, cleanup, next_tick, online_user_count>>

\* Faulty variant: the time of a known session is kept (entry().or_insert).
hb_insert_keeps_time(c, headers) ==
    /\ hb[c].pc = "idle"
    /\ lock = "free"
    /\ LET id == SessionId(headers)
       IN /\ user_activity_time' = HashMap_insert_if_vacant(user_activity_time, id, clock)
          /\ hb' = [hb EXCEPT ![c] =
                       [pc |-> "count",
                        is_new |-> is_none(get_by_id(user_activity_time, id))]]
          /\ touched' = touched \cup {id}
    /\ lock' = "heartbeat"
    /\ UNCHANGED <<user_activity_count, clock, cleanup, next_tick, online_user_count>>

\* Faulty variant: a known session is given the time since it was last seen.
hb_insert_elapsed(c, headers) ==
    /\ hb[c].pc = "idle"
    /\ lock = "free"
    /\ LET id == SessionId(headers)
       IN /\ user_activity_time' = HashMap_insert(user_activity_time, id,
                                      IF id \in DOMAIN user_activity_time
                                      THEN clock - user_activity_time[id] ELSE clock)
          /\ hb' = [hb EXCEPT ![c] =
                       [pc |-> "count",
                        is_new |-> is_none(get_by_id(user_activity_time, id))]]
          /\ touched' = touched \cup {id}
    /\ lock' = "heartbeat"
    /\ UNCHANGED <<user_activity_count, clock, cleanup, next_tick, online_user_count>>

\* get_heartbeat, lines 92-96: take the write lock and insert the session id.
hb_insert(c, headers) ==
    /\ hb[c].pc = "idle"
    /\ lock = "free"
    /\ LET id == SessionId(headers)
       IN /\ user_activity_time' = HashMap_insert(user_activity_time, id, clock)
          /\ hb' = [hb EXCEPT ![c] =
                       [pc |-> "count",
                        is_new |-> is_none(get_by_id(user_activity_time, id))]]
          /\ touched' = touched \cup {id}
    /\ lock' = "heartbeat"
    /\ UNCHANGED <<user_activity_count, clock, cleanup, next_tick, online_user_count>>

\* Faulty variant: every heartbeat is counted, known session or not.
hb_count_always(c) ==
    /\ hb[c].pc = "count"
    /\ user_activity_count' = user_activity_count + 1
    /\ lock' = "free"
    /\ hb' = [hb EXCEPT ![c] = [pc |-> "load", is_new |-> FALSE]]
    /\ UNCHANGED <<user_activity_time, clock, cleanup, next_tick, touched,
                   online_user_count>>

\* get_heartbeat, lines 97-100: count a new session, then drop the guard.
hb_count(c) ==
    /\ hb[c].pc = "count"
    /\ user_activity_count' = IF hb[c].is_new
                              THEN user_activity_count + 1
                              ELSE user_activity_count
    /\ lock' = "free"
    /\ hb' = [hb EXCEPT ![c] = [pc |-> "load", is_new |-> FALSE]]
    /\ UNCHANGED <<user_activity_time, clock, cleanup, next_tick, touched,
                   online_user_count>>

\* get_heartbeat, lines 102-111: load the counter into the response.
hb_respond(c) ==
    /\ hb[c].pc = "load"
    /\ hb' = [hb EXCEPT ![c].pc = "idle"]
    /\ online_user_count' = user_activity_count
    /\ UNCHANGED <<user_activity_time, user_activity_count, lock, clock, cleanup,
                   next_tick, touched>>

\* Faulty variant: the 30 seconds of the comment instead of the timeout.
Retained_30s(map, now) ==
    {k \in DOMAIN map : now - map[k] < 30}

\* Faulty variant: a record is dropped a second before its timeout.
Retained_a_second_less(map, now) ==
    {k \in DOMAIN map : now - map[k] < TIMEOUT_SECS - 1}

\* The retain closure: a record stays while it was active within the timeout.
Retained(map, now) ==
    {k \in DOMAIN map : now - map[k] < TIMEOUT_SECS}

\* Faulty variant: the interval is twice as long.
cleanup_tick_half_as_often ==
    /\ cleanup.pc = "tick"
    /\ clock >= next_tick
    /\ next_tick' = next_tick + 2 * INTERVAL_SECS
    /\ cleanup' = [cleanup EXCEPT !.pc = "acquire"]
    /\ UNCHANGED <<user_activity_time, user_activity_count, lock, clock, hb, touched,
                   online_user_count>>

\* Faulty variant: the task sleeps once instead of following an interval.
cleanup_tick_once ==
    /\ cleanup.pc = "tick"
    /\ clock >= next_tick
    /\ next_tick = 0
    /\ next_tick' = next_tick + INTERVAL_SECS
    /\ cleanup' = [cleanup EXCEPT !.pc = "acquire"]
    /\ UNCHANGED <<user_activity_time, user_activity_count, lock, clock, hb, touched,
                   online_user_count>>

\* start_cleanup_task: interval.tick() completes at its deadline or later.
cleanup_tick ==
    /\ cleanup.pc = "tick"
    /\ clock >= next_tick
    /\ next_tick' = next_tick + INTERVAL_SECS
    /\ cleanup' = [cleanup EXCEPT !.pc = "acquire"]
    /\ UNCHANGED <<user_activity_time, user_activity_count, lock, clock, hb, touched,
                   online_user_count>>

\* Faulty variant: the records kept are given the time of the pass.
cleanup_retain_renewing ==
    /\ cleanup.pc = "acquire"
    /\ lock = "free"
    /\ lock' = "cleanup"
    /\ LET keep == Retained(user_activity_time, clock)
       IN /\ user_activity_time' = [k \in keep |-> clock]
          /\ touched' = keep
    /\ cleanup' = [pc |-> "store",
                   before_count |-> Cardinality(DOMAIN user_activity_time),
                   now |-> Some(clock)]
    /\ UNCHANGED <<user_activity_count, clock, hb, next_tick, online_user_count>>

\* start_cleanup_task, lines 146-150: take the write lock, read the time, retain.
cleanup_retain ==
    /\ cleanup.pc = "acquire"
    /\ lock = "free"
    /\ lock' = "cleanup"
    /\ LET keep == Retained(user_activity_time, clock)
       IN /\ user_activity_time' = [k \in keep |-> user_activity_time[k]]
          /\ touched' = keep
    /\ cleanup' = [pc |-> "store",
                   before_count |-> Cardinality(DOMAIN user_activity_time),
                   now |-> Some(clock)]
    /\ UNCHANGED <<user_activity_count, clock, hb, next_tick, online_user_count>>

\* Faulty variant: the counter is decremented by one, as the doc comment words it.
cleanup_store_minus_one ==
    /\ cleanup.pc = "store"
    /\ LET after_count == Cardinality(DOMAIN user_activity_time)
       IN user_activity_count' = IF cleanup.before_count # after_count
                                 THEN user_activity_count - 1
                                 ELSE user_activity_count
    /\ lock' = "free"
    /\ cleanup' = [cleanup EXCEPT !.pc = "tick"]
    /\ UNCHANGED <<user_activity_time, clock, hb, next_tick, touched,
                   online_user_count>>

\* Faulty variant: the guard outlives the loop body and is never dropped.
cleanup_store_guard_kept ==
    /\ cleanup.pc = "store"
    /\ LET after_count == Cardinality(DOMAIN user_activity_time)
       IN user_activity_count' = IF cleanup.before_count # after_count
                                 THEN after_count
                                 ELSE user_activity_count
    /\ lock' = lock
    /\ cleanup' = [cleanup EXCEPT !.pc = "tick", !.now = None]
    /\ UNCHANGED <<user_activity_time, clock, hb, next_tick, touched,
                   online_user_count>>

\* start_cleanup_task, lines 151-157: store the new size if it changed; the
\* guard drops at the end of the loop body.
cleanup_store ==
    /\ cleanup.pc = "store"
    /\ LET after_count == Cardinality(DOMAIN user_activity_time)
       IN user_activity_count' = IF cleanup.before_count # after_count
                                 THEN after_count
                                 ELSE user_activity_count
    /\ lock' = "free"
    /\ cleanup' = [cleanup EXCEPT !.pc = "tick", !.now = None]
    /\ UNCHANGED <<user_activity_time, clock, hb, next_tick, touched,
                   online_user_count>>

\* Time passes.
Tick ==
    /\ clock < MaxTime
    /\ clock' = clock + 1
    /\ UNCHANGED <<user_activity_time, user_activity_count, lock, hb, cleanup,
                   next_tick, touched, online_user_count>>

\* The cleanup task has a step to take now: its tick is due or its pass is
\* under way.
CleanupDue == cleanup.pc # "tick" \/ clock >= next_tick

\* Time passes while the cleanup task is waiting for its next tick: the tick
\* fires at its deadline and a pass takes no time.
TickOnTime ==
    /\ ~CleanupDue
    /\ clock < Horizon
    /\ clock' = clock + 1
    /\ UNCHANGED <<user_activity_time, user_activity_count, lock, hb, cleanup,
                   next_tick, touched, online_user_count>>

NextTouch ==
    \/ \E c \in Handlers, headers \in HeaderMap : hb_insert(c, headers) /\ UNCHANGED <<restVars, contVars, postVars, keyVars>>
    \/ \E c \in Handlers : hb_count(c) /\ UNCHANGED <<restVars, contVars, postVars, keyVars>>
    \/ \E c \in Handlers : hb_respond(c) /\ UNCHANGED <<restVars, contVars, postVars, keyVars>>
    \/ Tick /\ UNCHANGED <<restVars, contVars, postVars, keyVars>>

NextPresence ==
    \/ \E c \in Handlers, headers \in HeaderMap : hb_insert(c, headers) /\ UNCHANGED <<restVars, contVars, postVars, keyVars>>
    \/ \E c \in Handlers : hb_count(c) /\ UNCHANGED <<restVars, contVars, postVars, keyVars>>
    \/ \E c \in Handlers : hb_respond(c) /\ UNCHANGED <<restVars, contVars, postVars, keyVars>>
    \/ cleanup_tick /\ UNCHANGED <<restVars, contVars, postVars, keyVars>>
    \/ cleanup_retain /\ UNCHANGED <<restVars, contVars, postVars, keyVars>>
    \/ cleanup_store /\ UNCHANGED <<restVars, contVars, postVars, keyVars>>
    \/ Tick /\ UNCHANGED <<restVars, contVars, postVars, keyVars>>

NextOnTime ==
    \/ \E c \in Handlers, headers \in HeaderMap : hb_insert(c, headers) /\ UNCHANGED <<restVars, contVars, postVars, keyVars>>
    \/ \E c \in Handlers : hb_count(c) /\ UNCHANGED <<restVars, contVars, postVars, keyVars>>
    \/ \E c \in Handlers : hb_respond(c) /\ UNCHANGED <<restVars, contVars, postVars, keyVars>>
    \/ cleanup_tick /\ UNCHANGED <<restVars, contVars, postVars, keyVars>>
    \/ cleanup_retain /\ UNCHANGED <<restVars, contVars, postVars, keyVars>>
    \/ cleanup_store /\ UNCHANGED <<restVars, contVars, postVars, keyVars>>
    \/ TickOnTime /\ UNCHANGED <<restVars, contVars, postVars, keyVars>>


\* ====================================================== Container, threaded
\* Threads call get_by_id, put_by_id and delete_by_id on one shared Container.
\* A stored T is more than a machine word: it is written and copied in two
\* halves, [lo, hi], and is whole when the halves agree.  Only the RwLock
\* keeps a reader from seeing a half-written value.
Threads == 1..NumThreads
Cell(v) == [lo |-> v, hi |-> v]
IsWhole(cell) == cell.lo = cell.hi
Call(pc, op, key, value, ret) ==
    [pc |-> pc, op |-> op, key |-> key, value |-> value, ret |-> ret]
Idle == Call("idle", "none", 0, 0, None)
Returned(op, key, ret) == [op |-> op, key |-> key, ret |-> ret]

InitContainer ==
    /\ container = EmptyMap
    /\ rwlock = [writer |-> None, readers |-> {}]
    /\ th = [t \in Threads |-> Idle]
    /\ returned = Returned("none", 0, None)
    /\ committed = EmptyMap
    /\ last_put = EmptyMap

\* Faulty variant: a read guard is granted beside a writer.
CanRead_beside_writer == TRUE

\* RwLock::read: granted while no writer holds the lock.
CanRead == rwlock.writer = None

\* Faulty variant: a write guard is granted beside another writer.
CanWrite_beside_writer == rwlock.readers = {}

\* RwLock::write: granted while nobody holds the lock.
CanWrite == rwlock.writer = None /\ rwlock.readers = {}

\* get_by_id, line 38 and the first half of the clone of line 39.
get_by_id_lock(t, key) ==
    /\ th[t].pc = "idle"
    /\ CanRead
    /\ rwlock' = [rwlock EXCEPT !.readers = @ \cup {t}]
    /\ th' = [th EXCEPT ![t] =
                 Call("locked", "get", key, 0,
                      IF key \in DOMAIN container
                      THEN Some(Cell(container[key].lo)) ELSE None)]
    /\ UNCHANGED <<container, returned, committed, last_put>>

\* get_by_id, line 39 and the end of the guard: the clone is completed with
\* the second half, if the entry is (still) there.
get_by_id_return(t) ==
    /\ th[t].pc = "locked" /\ th[t].op = "get"
    /\ LET key == th[t].key
           ret == IF th[t].ret = None \/ key \notin DOMAIN container
                  THEN th[t].ret
                  ELSE Some([lo |-> unwrap(th[t].ret).lo, hi |-> container[key].hi])
       IN returned' = Returned("get", key, ret)
    /\ th' = [th EXCEPT ![t] = Idle]
    /\ rwlock' = [rwlock EXCEPT !.readers = @ \ {t}]
    /\ UNCHANGED <<container, committed, last_put>>

\* put_by_id, line 62 and the first half of the insert of line 63.
put_by_id_lock(t, key, value) ==
    /\ th[t].pc = "idle"
    /\ CanWrite
    /\ rwlock' = [rwlock EXCEPT !.writer = Some(t)]
    /\ container' = HashMap_insert(container, key,
                   [lo |-> value,
                    hi |-> IF key \in DOMAIN container THEN container[key].hi ELSE Null])
    /\ th' = [th EXCEPT ![t] =
                 Call("locked", "put", key, value, get_by_id(container, key))]
    /\ last_put' = HashMap_insert(last_put, key, value)
    /\ UNCHANGED <<returned, committed>>

\* put_by_id, line 63 and the end of the guard: the insert is completed.
put_by_id_return(t) ==
    /\ th[t].pc = "locked" /\ th[t].op = "put"
    /\ container' = HashMap_insert(container, th[t].key, Cell(th[t].value))
    /\ committed' = HashMap_insert(committed, th[t].key, Cell(th[t].value))
    /\ rwlock' = [rwlock EXCEPT !.writer = None]
    /\ returned' = Returned("put", th[t].key, th[t].ret)
    /\ th' = [th EXCEPT ![t] = Idle]
    /\ UNCHANGED last_put

\* delete_by_id, line 71.
delete_by_id_lock(t, key) ==
    /\ th[t].pc = "idle"
    /\ CanWrite
    /\ rwlock' = [rwlock EXCEPT !.writer = Some(t)]
    /\ th' = [th EXCEPT ![t] = Call("locked", "delete", key, 0, None)]
    /\ last_put' = HashMap_remove(last_put, key)
    /\ UNCHANGED <<container, returned, committed>>

\* Faulty variant: the removed value is dropped and None returned.
delete_by_id_return_nothing(t) ==
    /\ th[t].pc = "locked" /\ th[t].op = "delete"
    /\ container' = HashMap_remove(container, th[t].key)
    /\ committed' = HashMap_remove(committed, th[t].key)
    /\ rwlock' = [rwlock EXCEPT !.writer = None]
    /\ returned' = Returned("delete", th[t].key, None)
    /\ th' = [th EXCEPT ![t] = Idle]
    /\ UNCHANGED last_put

\* delete_by_id, line 72 and the end of the guard.
delete_by_id_return(t) ==
    /\ th[t].pc = "locked" /\ th[t].op = "delete"
    /\ container' = HashMap_remove(container, th[t].key)
    /\ committed' = HashMap_remove(committed, th[t].key)
    /\ rwlock' = [rwlock EXCEPT !.writer = None]
    /\ returned' = Returned("delete", th[t].key, get_by_id(container, th[t].key))
    /\ th' = [th EXCEPT ![t] = Idle]
    /\ UNCHANGED last_put

NextContainer ==
    \/ \E t \in Threads, key \in Ids :
          get_by_id_lock(t, key) /\ UNCHANGED <<restVars, presVars, postVars, keyVars>>
    \/ \E t \in Threads : get_by_id_return(t) /\ UNCHANGED <<restVars, presVars, postVars, keyVars>>
    \/ \E t \in Threads, key \in Ids, value \in Values :
          put_by_id_lock(t, key, value) /\ UNCHANGED <<restVars, presVars, postVars, keyVars>>
    \/ \E t \in Threads : put_by_id_return(t) /\ UNCHANGED <<restVars, presVars, postVars, keyVars>>
    \/ \E t \in Threads, key \in Ids :
          delete_by_id_lock(t, key) /\ UNCHANGED <<restVars, presVars, postVars, keyVars>>
    \/ \E t \in Threads : delete_by_id_return(t) /\ UNCHANGED <<restVars, presVars, postVars, keyVars>>

\* ------------------------------------------- POST handlers side by side
\* The handlers of concurrent POST requests.  A handler calls get_by_id and
\* then put_by_id, each taking and dropping the lock of the Container on its
\* own, so that calls of other handlers can come in between.
Posting(pc, kind, id, input, result, answer) ==
    [pc |-> pc, kind |-> kind, id |-> id, input |-> input, result |-> result,
     answer |-> answer]
NotPosting == Posting("idle", "none", 0, [data |-> None], None, Response(0, None))

InitPost == post = [c \in Handlers |-> NotPosting]

\* rest_id_post, lines 138-151: the id is settled and looked up.
rest_id_post_get(c, path, input) ==
    /\ post[c].pc = "idle"
    /\ \E id \in ResolveId(path, store["rest"]) :
          post' = [post EXCEPT ![c] =
                      Posting("got", "rest", id, input, get_by_id(store["rest"], id),
                              Response(0, None))]
    /\ UNCHANGED <<store, req, resp, deleted, order>>

\* rest_id_post, lines 152-162: the item is put if the lookup found nothing.
rest_id_post_put(c) ==
    /\ post[c].pc = "got" /\ post[c].kind = "rest"
    /\ LET item == RestItem(post[c].id, post[c].input)
       IN IF post[c].result = None
          THEN /\ store' = [store EXCEPT !["rest"] =
                                put_by_id(store["rest"], post[c].id, item).map]
               /\ post' = [post EXCEPT ![c].pc = "done",
                                       ![c].answer = Response(CREATED, Some(item))]
          ELSE /\ store' = store
               /\ post' = [post EXCEPT ![c].pc = "done",
                                       ![c].answer = Response(CONFLICT, post[c].result)]
    /\ UNCHANGED <<req, resp, deleted, order>>

\* node_id_post, lines 199-211, and Node::factory_post, line 72: the lookup.
factory_post_get(c, path, input) ==
    /\ post[c].pc = "idle"
    /\ \E id \in ResolveId(path, store["node"]) :
          post' = [post EXCEPT ![c] =
                      Posting("got", "node", id, input, get_by_id(store["node"], id),
                              Response(0, None))]
    /\ UNCHANGED <<store, req, resp, deleted, order>>

\* Node::factory_post, lines 73-80, and node_id_post, lines 213-217.
factory_post_put(c) ==
    /\ post[c].pc = "got" /\ post[c].kind = "node"
    /\ LET new_value == factory(post[c].id, post[c].input.data)
       IN IF post[c].result # None
          THEN /\ store' = store
               /\ post' = [post EXCEPT ![c].pc = "done",
                                       ![c].answer = Response(CONFLICT, post[c].result)]
          ELSE /\ store' = [store EXCEPT !["node"] =
                                put_by_id(store["node"], post[c].id, new_value).map]
               /\ post' = [post EXCEPT ![c].pc = "done",
                                       ![c].answer = Response(CREATED, Some(new_value))]
    /\ UNCHANGED <<req, resp, deleted, order>>

NextPost ==
    \/ \E c \in Handlers, id \in Ids, input \in DataInput :
          Route("rest") /\ rest_id_post_get(c, Some(id), input)
              /\ UNCHANGED <<presVars, contVars, patch, keyVars>>
    \/ \E c \in Handlers :
          Route("rest") /\ rest_id_post_put(c) /\ UNCHANGED <<presVars, contVars, patch, keyVars>>
    \/ \E c \in Handlers, id \in Ids, input \in DataInput :
          Route("node") /\ factory_post_get(c, Some(id), input)
              /\ UNCHANGED <<presVars, contVars, patch, keyVars>>
    \/ \E c \in Handlers :
          Route("node") /\ factory_post_put(c) /\ UNCHANGED <<presVars, contVars, patch, keyVars>>

\* ---------------------------------- PATCH and DELETE handlers side by side
\* The handlers of concurrent PATCH and DELETE requests.  A PATCH handler
\* calls get_by_id and then put_by_id, two acquisitions of the lock; a DELETE
\* handler makes the one call delete_by_id.
Patching(pc, kind, verb, id, input, old_value, answer) ==
    [pc |-> pc, kind |-> kind, verb |-> verb, id |-> id, input |-> input,
     old_value |-> old_value, answer |-> answer]
NotPatching == Patching("idle", "none", "none", 0, [data |-> None], None, Response(0, None))

InitPatch == patch = [c \in Handlers |-> NotPatching]

\* No PATCH or DELETE request has arrived yet.
Quiet == \A c \in Handlers : patch[c].pc = "idle"

\* todos_id_patch, lines 177-182: the lookup, and NotFound if it finds nothing.
todos_id_patch_get(c, id, input) ==
    /\ patch[c].pc = "idle"
    /\ LET old_value == get_by_id(store["todos"], id)
       IN patch' = [patch EXCEPT ![c] =
                       IF is_none(old_value)
                       THEN Patching("done", "todos", "PATCH", id, input, old_value,
                                     Response(NOT_FOUND, None))
                       ELSE Patching("got", "todos", "PATCH", id, input, old_value,
                                     Response(0, None))]
    /\ UNCHANGED <<store, req, resp, deleted, order>>

\* todos_id_patch, lines 184-191: the item is built from the body and put.
todos_id_patch_put(c) ==
    /\ patch[c].pc = "got" /\ patch[c].kind = "todos"
    /\ LET new_value == TodoItem(patch[c].id, patch[c].input)
       IN /\ store' = [store EXCEPT !["todos"] =
                           put_by_id(store["todos"], patch[c].id, new_value).map]
          /\ patch' = [patch EXCEPT ![c].pc = "done",
                                    ![c].answer = Response(OK, Some(new_value))]
    /\ UNCHANGED <<req, resp, deleted, order>>

\* todos_id_delete, lines 200-211, beside other handlers.
todos_id_delete_beside(c, id) ==
    /\ patch[c].pc = "idle"
    /\ LET r == delete_by_id(store["todos"], id)
       IN /\ store' = [store EXCEPT !["todos"] = r.map]
          /\ patch' = [patch EXCEPT ![c] =
                          Patching("done", "todos", "DELETE", id, [data |-> None], r.ret,
                                   IF r.ret # None THEN Response(NO_CONTENT, None)
                                                   ELSE Response(NOT_FOUND, None))]
    /\ UNCHANGED <<req, resp, deleted, order>>

\* rest_id_patch, lines 177-182: the lookup, and NotFound if it finds nothing.
rest_id_patch_get(c, id, input) ==
    /\ patch[c].pc = "idle"
    /\ LET old_value == get_by_id(store["rest"], id)
       IN patch' = [patch EXCEPT ![c] =
                       IF is_none(old_value)
                       THEN Patching("done", "rest", "PATCH", id, input, old_value,
                                     Response(NOT_FOUND, None))
                       ELSE Patching("got", "rest", "PATCH", id, input, old_value,
                                     Response(0, None))]
    /\ UNCHANGED <<store, req, resp, deleted, order>>

\* rest_id_patch, lines 184-190: the item is built from the body and put.
rest_id_patch_put(c) ==
    /\ patch[c].pc = "got" /\ patch[c].kind = "rest"
    /\ LET new_value == RestItem(patch[c].id, patch[c].input)
       IN /\ store' = [store EXCEPT !["rest"] =
                           put_by_id(store["rest"], patch[c].id, new_value).map]
          /\ patch' = [patch EXCEPT ![c].pc = "done",
                                    ![c].answer = Response(OK, Some(new_value))]
    /\ UNCHANGED <<req, resp, deleted, order>>

\* rest_id_delete with an id, lines 203-216, beside other handlers.
rest_id_delete_beside(c, id) ==
    /\ patch[c].pc = "idle"
    /\ LET r == delete_by_id(store["rest"], id)
       IN /\ store' = [store EXCEPT !["rest"] = r.map]
          /\ patch' = [patch EXCEPT ![c] =
                          Patching("done", "rest", "DELETE", id, [data |-> None], r.ret,
                                   IF r.ret # None THEN Response(NO_CONTENT, None)
                                                   ELSE Response(NOT_FOUND, None))]
    /\ UNCHANGED <<req, resp, deleted, order>>

\* The store is filled by PUT requests before the PATCH and DELETE requests
\* arrive; these are then handled side by side, one request per handler.
NextPatch ==
    \/ \E id \in Ids, input \in TodoInput :
          Quiet /\ Route("todos") /\ todos_id_put(Some(id), input) /\ History
    \/ \E c \in Handlers, id \in Ids, input \in TodoInput :
          Route("todos") /\ todos_id_patch_get(c, id, input)
              /\ UNCHANGED <<presVars, contVars, post, keyVars>>
    \/ \E c \in Handlers :
          Route("todos") /\ todos_id_patch_put(c) /\ UNCHANGED <<presVars, contVars, post, keyVars>>
    \/ \E c \in Handlers, id \in Ids :
          Route("todos") /\ todos_id_delete_beside(c, id)
              /\ UNCHANGED <<presVars, contVars, post, keyVars>>
    \/ \E id \in Ids, input \in DataInput :
          Quiet /\ Route("rest") /\ rest_id_put(Some(id), input) /\ History
    \/ \E c \in Handlers, id \in Ids, input \in DataInput :
          Route("rest") /\ rest_id_patch_get(c, id, input)
              /\ UNCHANGED <<presVars, contVars, post, keyVars>>
    \/ \E c \in Handlers :
          Route("rest") /\ rest_id_patch_put(c) /\ UNCHANGED <<presVars, contVars, post, keyVars>>
    \/ \E c \in Handlers, id \in Ids :
          Route("rest") /\ rest_id_delete_beside(c, id)
              /\ UNCHANGED <<presVars, contVars, post, keyVars>>

\* No heartbeat has been handled yet.
InitKey == last_hb = None

Init == InitRest /\ InitPresence /\ InitContainer /\ InitPost /\ InitPatch /\ InitKey

\* The REST service, one request at a time.
SpecRest == Init /\ [][NextRest]_vars

\* The REST service answering list requests, one request at a time.
SpecList == Init /\ [][NextList]_vars

\* Heartbeats with the cleanup task running.
SpecPresence == Init /\ [][NextPresence]_vars

\* Heartbeats with the cleanup task ticking on time.
SpecOnTime == Init /\ [][NextOnTime]_vars

\* POST requests with an id in the path handled side by side, one request
\* per handler.
SpecPost == Init /\ [][NextPost]_vars

\* PATCH and DELETE requests handled side by side on a filled store.
SpecPatch == Init /\ [][NextPatch]_vars

\* The presence service and the Container under fair scheduling.  The two
\* share no lock and no data, and a behaviour follows one of them while the
\* other is at rest.  A step that is ready is eventually taken: a handler or
\* thread inside its critical section goes on, a due tick fires, and the lock
\* of the presence map, which queues its waiters, is eventually granted to
\* the cleanup task.  No request is required to arrive and time is not
\* required to pass.
\* Handlers, as threads, are interchangeable: a request is taken by the first
\* idle one.
FirstIdle(c) == \A d \in Handlers : d < c => hb[d].pc # "idle"
FirstIdleThread(t) == \A u \in Threads : u < t => th[u].pc # "idle"

\* The headers of two clients: one sends none of the three, the other sends
\* an empty x-forwarded-for.
Clients == {h \in HeaderMap : /\ h.user_agent = None /\ h.accept_language = None
                              /\ h.x_forwarded_for \in {None, Some(<<COLON>>)}}

NextSweep ==
    \/ \E c \in Handlers, headers \in Clients :
          FirstIdle(c) /\ hb_insert(c, headers) /\ UNCHANGED <<restVars, contVars, postVars, keyVars>>
    \/ \E c \in Handlers : hb_count(c) /\ UNCHANGED <<restVars, contVars, postVars, keyVars>>
    \/ \E c \in Handlers : hb_respond(c) /\ UNCHANGED <<restVars, contVars, postVars, keyVars>>
    \/ cleanup_tick /\ UNCHANGED <<restVars, contVars, postVars, keyVars>>
    \/ cleanup_retain /\ UNCHANGED <<restVars, contVars, postVars, keyVars>>
    \/ cleanup_store /\ UNCHANGED <<restVars, contVars, postVars, keyVars>>
    \/ Tick /\ UNCHANGED <<restVars, contVars, postVars, keyVars>>

\* In NextLive the threads call one Container; what is put plays no part in
\* the locking, and every put_by_id puts the same value.
NextLive ==
    \/ \E c \in Handlers, headers \in Clients :
          InitContainer /\ FirstIdle(c) /\ hb_insert(c, headers)
              /\ UNCHANGED <<restVars, contVars, postVars, keyVars>>
    \/ \E c \in Handlers :
          InitContainer /\ hb_count(c) /\ UNCHANGED <<restVars, contVars, postVars, keyVars>>
    \/ \E c \in Handlers :
          InitContainer /\ hb_respond(c) /\ UNCHANGED <<restVars, contVars, postVars, keyVars>>
    \/ InitContainer /\ cleanup_tick /\ UNCHANGED <<restVars, contVars, postVars, keyVars>>
    \/ InitContainer /\ cleanup_retain /\ UNCHANGED <<restVars, contVars, postVars, keyVars>>
    \/ InitContainer /\ cleanup_store /\ UNCHANGED <<restVars, contVars, postVars, keyVars>>
    \/ InitContainer /\ Tick /\ UNCHANGED <<restVars, contVars, postVars, keyVars>>
    \/ \E t \in Threads, key \in Ids :
          InitPresence /\ FirstIdleThread(t) /\ get_by_id_lock(t, key)
              /\ UNCHANGED <<restVars, presVars, postVars, keyVars>>
    \/ \E t \in Threads :
          InitPresence /\ get_by_id_return(t) /\ UNCHANGED <<restVars, presVars, postVars, keyVars>>
    \/ \E t \in Threads, key \in Ids :
          InitPresence /\ FirstIdleThread(t) /\ put_by_id_lock(t, key, MaxData)
              /\ UNCHANGED <<restVars, presVars, postVars, keyVars>>
    \/ \E t \in Threads :
          InitPresence /\ put_by_id_return(t) /\ UNCHANGED <<restVars, presVars, postVars, keyVars>>
    \/ \E t \in Threads, key \in Ids :
          InitPresence /\ FirstIdleThread(t) /\ delete_by_id_lock(t, key)
              /\ UNCHANGED <<restVars, presVars, postVars, keyVars>>
    \/ \E t \in Threads :
          InitPresence /\ delete_by_id_return(t) /\ UNCHANGED <<restVars, presVars, postVars, keyVars>>

FairPresence ==
    /\ \A c \in Handlers :
          /\ WF_vars(InitContainer /\ hb_count(c)
                        /\ UNCHANGED <<restVars, contVars, postVars, keyVars>>)
          /\ WF_vars(InitContainer /\ hb_respond(c)
                        /\ UNCHANGED <<restVars, contVars, postVars, keyVars>>)
    /\ WF_vars(InitContainer /\ cleanup_tick /\ UNCHANGED <<restVars, contVars, postVars, keyVars>>)
    /\ SF_vars(InitContainer /\ cleanup_retain /\ UNCHANGED <<restVars, contVars, postVars, keyVars>>)
    /\ WF_vars(InitContainer /\ cleanup_store /\ UNCHANGED <<restVars, contVars, postVars, keyVars>>)

FairLive ==
    /\ FairPresence
    /\ \A t \in Threads :
          /\ WF_vars(get_by_id_return(t) /\ UNCHANGED <<restVars, presVars, postVars, keyVars>>)
          /\ WF_vars(put_by_id_return(t) /\ UNCHANGED <<restVars, presVars, postVars, keyVars>>)
          /\ WF_vars(delete_by_id_return(t) /\ UNCHANGED <<restVars, presVars, postVars, keyVars>>)

SpecLive == Init /\ [][NextLive]_vars /\ FairLive

\* Heartbeats with the cleanup task running, under fair scheduling.
SpecSweep == Init /\ [][NextSweep]_vars /\ FairPresence

\* Heartbeats with no cleanup pass: they arrive between the first tick of the
\* cleanup task and its second one, INTERVAL_SECS later.  The headers and the
\* session id of each are kept for the next one to be compared with.
NextKey ==
    \/ \E c \in Handlers, headers \in HeaderMap :
          /\ FirstIdle(c)
          /\ hb_insert(c, headers)
          /\ last_hb' = Some([headers |-> headers, key |-> SessionId(headers)])
          /\ UNCHANGED <<restVars, contVars, postVars>>
    \/ \E c \in Handlers : hb_count(c) /\ UNCHANGED <<restVars, contVars, postVars, keyVars>>
    \/ \E c \in Handlers : hb_respond(c) /\ UNCHANGED <<restVars, contVars, postVars, keyVars>>
    \/ clock + 1 < INTERVAL_SECS /\ Tick /\ UNCHANGED <<restVars, contVars, postVars, keyVars>>

SpecKey == Init /\ [][NextKey]_vars

\* Threads sharing one Container.
SpecContainer == Init /\ [][NextContainer]_vars

\* Heartbeats alone: the cleanup task makes no pass.
SpecTouch == Init /\ [][NextTouch]_vars

\* ================================================================== claims
\* The item a handler of `kind` builds from an id and a request body.
ItemOf(kind, id, input) ==
    CASE kind = "todos" -> TodoItem(id, input)
      [] kind = "rest" -> RestItem(id, input)
      [] kind = "node" -> factory(id, input.data)
      [] OTHER -> [id |-> id]

\* C1: POST conflict law, one request at a time.  In every store, a POST whose
\* id k is absent returns Created and afterwards GET(k) finds the item built
\* from the body; a POST whose id k is present (as after that first POST)
\* returns Conflict, carries the stored item and leaves the store as it was.
C1_PostConflictLaw ==
    [][req'.verb = "POST" =>
        LET kind == req'.kind
            k == req'.id
            item == ItemOf(kind, k, req'.input)
        IN IF k \notin DOMAIN store[kind]
           THEN /\ resp'.status = CREATED
                /\ resp'.body = Some(item)
                /\ get_by_id(store'[kind], k) = Some(item)
           ELSE /\ resp'.status = CONFLICT
                /\ resp'.body = Some(store[kind][k])
                /\ store' = store
                /\ get_by_id(store'[kind], k) = Some(store[kind][k])]_vars

\* A second POST on a stored id was answered Conflict with the stored item,
\* which is not the item its own body would have built.
C1_Witness ==
    /\ req.verb = "POST"
    /\ resp.status = CONFLICT
    /\ resp.body = get_by_id(store[req.kind], req.id)
    /\ resp.body # Some(ItemOf(req.kind, req.id, req.input))

\* C2: PATCH merge law.  A PATCH on a stored item sets the fields its body
\* carries and leaves the fields its body lacks as they were stored.
C2_PatchMerges ==
    [][(req'.verb = "PATCH" /\ req'.id \in DOMAIN store[req'.kind]) =>
        LET kind == req'.kind
            old == store[kind][req'.id]
            new == store'[kind][req'.id]
            input == req'.input
        IN CASE kind = "todos" ->
                  /\ new.text = unwrap_or(input.text, old.text)
                  /\ new.completed = unwrap_or(input.completed, old.completed)
             [] kind = "rest" -> new.data = unwrap_or(input.data, old.data)
             [] kind = "node" -> new.content = unwrap_or(input.data, old.content)
             [] OTHER -> TRUE]_vars

\* C3: idempotence of PUT.  After PUT(k, v2), whatever was put under k before,
\* GET(k) finds the item of v2; and a PUT(k, v) that follows the same PUT(k, v)
\* leaves every container as the first one left it.
C3_PutIdempotent ==
    [][req'.verb = "PUT" =>
        /\ get_by_id(store'[req'.kind], req'.id)
              = Some(ItemOf(req'.kind, req'.id, req'.input))
        /\ (req.verb = "PUT" /\ req.kind = req'.kind /\ req.id = req'.id
              /\ req.input = req'.input) => store' = store]_vars

\* A PUT has replaced an item stored under the same key by a different one.
C3_Witness ==
    /\ req.verb = "PUT"
    /\ req.path # None
    /\ store[req.kind][req.id] = ItemOf(req.kind, req.id, req.input)
    /\ ItemOf(req.kind, req.id, req.input) # ItemOf(req.kind, req.id, [data |-> None, text |-> None, completed |-> None])
    /\ Cardinality(DOMAIN store[req.kind]) = NumIds

\* C8: DELETE finality.  After DELETE(k), GET(k) finds nothing; a DELETE(k) on a
\* key that is absent (as after a first DELETE with no write in between)
\* removes nothing, answers NotFound and leaves the store as it was.
C8_DeleteFinal ==
    [][(req'.verb = "DELETE" /\ req'.path # None) =>
        LET kind == req'.kind
            k == req'.id
        IN /\ get_by_id(store'[kind], k) = None
           /\ k \in DOMAIN store[kind] => resp'.status = NO_CONTENT
           /\ k \notin DOMAIN store[kind] =>
                 /\ delete_by_id(store[kind], k).ret = None
                 /\ resp'.status = NOT_FOUND
                 /\ store' = store]_vars

\* A second DELETE of a key that an earlier DELETE removed answered NotFound.
C8_Witness ==
    /\ req.verb = "DELETE"
    /\ resp.status = NOT_FOUND
    /\ req.id \in deleted[req.kind]
    /\ store[req.kind] # EmptyMap

\* C9: a PATCH on an absent key answers NotFound and inserts nothing: the
\* store is the same before and after.
C9_PatchAbsent ==
    [][(req'.verb = "PATCH" /\ req'.id \notin DOMAIN store[req'.kind]) =>
        /\ resp'.status = NOT_FOUND
        /\ resp'.body = None
        /\ store' = store]_vars

\* A PATCH on an absent key was answered NotFound while the store held items.
C9_Witness ==
    /\ req.verb = "PATCH"
    /\ resp.status = NOT_FOUND
    /\ req.id \notin DOMAIN store[req.kind]
    /\ store[req.kind] # EmptyMap

\* C4: presence counter consistency.  After any sequence of heartbeats with
\* no cleanup pass, whenever no heartbeat is inside its critical section, the
\* counter is the number of distinct session ids touched, which is the number
\* of records in the map.
C4_TouchCount ==
    lock = "free" =>
        /\ user_activity_count = Cardinality(touched)
        /\ touched = DOMAIN user_activity_time

\* Two sessions are counted, and one of them has sent a later heartbeat.
C4_Witness ==
    /\ lock = "free"
    /\ \A c \in Handlers : hb[c].pc = "idle"
    /\ user_activity_count = 2
    /\ Cardinality(touched) = 2
    /\ \E k \in touched : user_activity_time[k] = MaxTime
    /\ \E k \in touched : user_activity_time[k] = 0

\* C5: counter against map under concurrency.  In every state of every
\* interleaving of heartbeats and cleanup passes in which the write lock is
\* free, the counter is the number of records in the map.
C5_CountIsSize ==
    lock = "free" => user_activity_count = Cardinality(DOMAIN user_activity_time)

\* The lock is free between a heartbeat that has left its critical section
\* and the cleanup task waiting to enter, after a pass that removed a record.
C5_Witness ==
    /\ lock = "free"
    /\ cleanup.pc = "acquire"
    /\ cleanup.before_count = 2
    /\ \E c \in Handlers : hb[c].pc = "load"
    /\ user_activity_count = 1

\* C6: right after the retain of a cleanup pass at time T, every record left
\* in the map has lastSeenAt >= T - timeout.
C6_SweepRemovesStale ==
    cleanup.pc = "store" =>
        \A k \in DOMAIN user_activity_time :
            user_activity_time[k] >= unwrap(cleanup.now) - TIMEOUT_SECS

\* A pass has removed a stale record and left a fresh one.
C6_Witness ==
    /\ cleanup.pc = "store"
    /\ cleanup.before_count = 2
    /\ Cardinality(DOMAIN user_activity_time) = 1
    /\ clock = unwrap(cleanup.now)

\* C7: when a cleanup pass completes, the counter is the number of records
\* left in the map.
C7_SweepSetsCount ==
    [][(cleanup.pc = "store" /\ cleanup'.pc = "tick") =>
          user_activity_count' = Cardinality(DOMAIN user_activity_time')]_vars

\* A pass that found two records and removed both has completed.
C7_Witness ==
    /\ cleanup.pc = "tick"
    /\ cleanup.before_count = 2
    /\ user_activity_time = EmptyMap
    /\ user_activity_count = 0
    /\ lock = "free"

\* C10: threads interleave put_by_id, get_by_id and delete_by_id on shared
\* keys.  Every get_by_id returns what the completed writes had left under
\* its key while it held the lock: nothing, or one whole value, the one the
\* last completed put_by_id on that key wrote, not since replaced or deleted.
\* No call finds the lock in a state it cannot use: a writer holds it alone
\* and every call in progress holds the guard it took.  Whenever no writer
\* holds the lock the map is exactly what the completed writes left, one
\* whole value per key.
C10_ConcurrencySafe ==
    /\ [](/\ rwlock.writer # None => rwlock.readers = {}
          /\ rwlock.writer = None => container = committed
          /\ \A key \in DOMAIN committed : IsWhole(committed[key])
          /\ \A t \in Threads :
                th[t].pc = "locked" =>
                   IF th[t].op = "get" THEN t \in rwlock.readers
                                       ELSE rwlock.writer = Some(t))
    /\ [][\A t \in Threads :
            (th[t].pc = "locked" /\ th[t].op = "get" /\ th'[t].pc = "idle") =>
                /\ returned' = Returned("get", th[t].key,
                                        get_by_id(committed, th[t].key))
                /\ \A cell \in returned'.ret : IsWhole(cell)]_vars

\* A get_by_id has returned a stored value under a key that another thread
\* is now half-way through overwriting with a different value.
C10_Witness ==
    \E u \in Threads :
        /\ returned.op = "get" /\ returned.ret # None
        /\ th[u].pc = "locked" /\ th[u].op = "put" /\ th[u].key = returned.key
        /\ ~IsWhole(container[th[u].key])

\* C11: last writer wins.  Whenever every put_by_id and delete_by_id that
\* took the write lock has completed, a key on which no delete_by_id has
\* taken the lock since the last put_by_id holds the value of the put_by_id
\* that took the write lock last, which is one of the values written; a
\* get_by_id that takes the lock then returns it.
C11_LastWriterWins ==
    rwlock.writer = None =>
        \A key \in DOMAIN last_put :
            /\ last_put[key] \in Values
            /\ get_by_id(container, key) = Some(Cell(last_put[key]))

\* Two puts of different values on one key have completed: the one that
\* took the lock last returned the value of the other, and the key now
\* holds its own.
C11_Witness ==
    /\ rwlock.writer = None
    /\ returned.op = "put"
    /\ returned.ret # None
    /\ returned.key \in DOMAIN last_put
    /\ returned.ret # Some(Cell(last_put[returned.key]))
    /\ get_by_id(container, returned.key) = Some(Cell(last_put[returned.key]))

\* C12: pagination count.  A GET without an id on a store of N items, with
\* any offset and limit, answers Ok with exactly max(0, min(limit, N - offset))
\* items, each a stored item and no two the same; a missing offset counts as
\* 0, a missing limit as no limit, and an offset of N or more gives an empty
\* page.
C12_PageCount ==
    [][(req'.verb = "GET" /\ req'.path = None) =>
        LET map == store[req'.kind]
            N == Cardinality(DOMAIN map)
            offset == IF req'.input.offset = None THEN 0
                      ELSE unwrap(req'.input.offset)
            rest == IF N - offset > 0 THEN N - offset ELSE 0
            count == IF req'.input.limit = None THEN rest
                     ELSE IF unwrap(req'.input.limit) < rest
                          THEN unwrap(req'.input.limit) ELSE rest
            page == resp'.body
        IN /\ resp'.status = OK
           /\ Len(page) = count
           /\ \A i \in 1..Len(page) : \E k \in DOMAIN map : page[i] = map[k]
           /\ \A i, j \in 1..Len(page) : i # j => page[i] # page[j]
           /\ offset >= N => page = << >>]_vars

\* A page of one item was cut out of a store of several, past the first.
C12_Witness ==
    /\ req.verb = "GET" /\ req.path = None
    /\ req.input.offset = Some(1) /\ req.input.limit = Some(1)
    /\ Cardinality(DOMAIN store[req.kind]) = NumIds
    /\ Len(resp.body) = 1

\* C13: pagination stability.  A GET without an id that follows a GET without
\* an id with the same offset and limit, the store not modified between them,
\* returns the same sequence of items; and any GET without an id on a store
\* that has been listed, and received no new key since, iterates the items in
\* the order of that listing.
C13_PageStable ==
    [][(req'.verb = "GET" /\ req'.path = None) =>
        /\ (req.verb = "GET" /\ req.path = None /\ req.kind = req'.kind
              /\ req.input = req'.input) => resp'.body = resp.body
        /\ order # None =>
              resp'.body = Page(values(store[req'.kind], unwrap(order)), req'.input)]_vars

\* A store of several items was listed whole, and not in the order of its ids.
C13_Witness ==
    /\ req.verb = "GET" /\ req.path = None
    /\ req.input = NoPagination
    /\ Len(resp.body) = NumIds
    /\ resp.body[1].id > resp.body[2].id
    /\ order # None

\* C14: staleness lower bound.  No step removes a record or changes its
\* lastSeenAt while less than the timeout has passed since its last heartbeat,
\* other than a heartbeat renewing it: a cleanup pass at time now leaves every
\* record with now - lastSeenAt < timeout in the map with its lastSeenAt
\* unchanged, so a session that sends heartbeats more often than every timeout
\* is never removed.
C14_FreshKept ==
    [][\A k \in DOMAIN user_activity_time :
          clock - user_activity_time[k] < TIMEOUT_SECS =>
              /\ k \in DOMAIN user_activity_time'
              /\ (cleanup.pc = "acquire" /\ cleanup'.pc = "store") =>
                    user_activity_time'[k] = user_activity_time[k]]_vars

\* A pass has removed a record and kept one that was a second short of the
\* timeout.
C14_Witness ==
    /\ cleanup.pc = "store"
    /\ cleanup.before_count > Cardinality(DOMAIN user_activity_time)
    /\ \E k \in DOMAIN user_activity_time :
          unwrap(cleanup.now) - user_activity_time[k] = TIMEOUT_SECS - 1

\* C15: staleness upper bound.  With the cleanup task ticking every interval,
\* no record is in the map once timeout + interval has passed since its last
\* heartbeat; and whenever the lock is free the counter is the number of
\* records in the map, so the session is no longer counted either.
C15_StaleGone ==
    /\ \A k \in DOMAIN user_activity_time :
          clock - user_activity_time[k] < TIMEOUT_SECS + INTERVAL_SECS
    /\ lock = "free" => user_activity_count = Cardinality(DOMAIN user_activity_time)

\* A record has outlived one pass, being short of the timeout then, and is
\* a second from the bound with the next tick due.
C15_Witness ==
    /\ \E k \in DOMAIN user_activity_time :
          clock - user_activity_time[k] = TIMEOUT_SECS + INTERVAL_SECS - 1
    /\ clock >= next_tick
    /\ cleanup.pc = "tick"

\* C16: not found and conflict are answers.  In every store state a GET, a
\* PATCH or a DELETE on an absent id is answered NotFound (404) and a POST on
\* a stored id is answered Conflict (409); the store is the same before and
\* after, and the service goes on answering: every request has a response
\* with a status, and a further request can always be handled.
C16_FailuresAreValues ==
    /\ [][/\ (req'.verb \in {"GET", "PATCH", "DELETE"} /\ req'.path # None
                /\ req'.id \notin DOMAIN store[req'.kind]) =>
                   (resp'.status = NOT_FOUND /\ store' = store)
          /\ (req'.verb = "POST" /\ req'.id \in DOMAIN store[req'.kind]) =>
                   (resp'.status = CONFLICT /\ store' = store)
          /\ (resp.status \in {NOT_FOUND, CONFLICT} /\ req'.verb = "PUT") =>
                   (resp'.status = CREATED /\ req'.id \in DOMAIN store'[req'.kind])]_vars
    /\ [](/\ req.verb # "none" =>
                resp.status \in {OK, CREATED, NO_CONTENT, FORBIDDEN, NOT_FOUND, CONFLICT}
          /\ ENABLED NextRest)

\* A GET on an id that a DELETE had removed was answered NotFound, the store
\* still holding other items.
C16_Witness ==
    /\ req.verb = "GET"
    /\ resp.status = NOT_FOUND
    /\ req.id \in deleted[req.kind]
    /\ store[req.kind] # EmptyMap

\* C17: PUT always succeeds.  In every store state a PUT on id k is answered
\* with a success status and the item it wrote, whether or not k was stored
\* before, and a GET(k) that follows returns that item; every other entry is
\* left as it was.  A PUT without an id works on a generated id that was not
\* stored, so the store gains exactly one entry.
C17_PutAlwaysSucceeds ==
    [][/\ req'.verb = "PUT" =>
            LET kind == req'.kind
                k == req'.id
            IN /\ resp' = Response(CREATED, Some(ItemOf(kind, k, req'.input)))
               /\ get_by_id(store'[kind], k) = resp'.body
               /\ DOMAIN store'[kind] = DOMAIN store[kind] \cup {k}
               /\ \A j \in DOMAIN store[kind] \ {k} : store'[kind][j] = store[kind][j]
               /\ \A other \in Kinds \ {kind} : store'[other] = store[other]
               /\ req'.path # None => k = unwrap(req'.path)
               /\ req'.path = None =>
                     /\ k \notin DOMAIN store[kind]
                     /\ Cardinality(DOMAIN store'[kind]) =
                            Cardinality(DOMAIN store[kind]) + 1
       /\ (req.verb = "PUT" /\ req'.verb = "GET" /\ req'.kind = req.kind
             /\ req'.path = Some(req.id)) =>
            resp' = Response(OK, resp.body)]_vars

\* A PUT without an id was answered while another entry was already stored.
C17_Witness ==
    /\ req.verb = "PUT"
    /\ req.path = None
    /\ resp.status = CREATED
    /\ Cardinality(DOMAIN store[req.kind]) = NumIds
    /\ get_by_id(store[req.kind], req.id) = resp.body

\* C18: what put and delete return.  A put_by_id returns the value stored
\* under its key before the call, and None when the key was vacant; a
\* delete_by_id returns the value it removed, and None when the key was
\* vacant.  Either way it is what get_by_id of the key gave on the map as the
\* call found it, and afterwards the key holds the put value, or nothing.
C18_ReturnsPrevious ==
    [][\A t \in Threads :
          (th[t].pc = "locked" /\ th[t].op \in {"put", "delete"} /\ th'[t].pc = "idle") =>
              LET key == th[t].key
              IN /\ returned'.op = th[t].op /\ returned'.key = key
                 /\ returned'.ret = get_by_id(committed, key)
                 /\ returned'.ret = None <=> key \notin DOMAIN committed
                 /\ get_by_id(container', key) =
                       IF th[t].op = "put" THEN Some(Cell(th[t].value)) ELSE None
                 /\ \A other \in DOMAIN committed \ {key} :
                       get_by_id(container', other) = Some(committed[other])]_vars

\* A delete_by_id returned the value it removed, the other key staying stored.
C18_Witness ==
    /\ returned.op = "delete"
    /\ returned.ret = Some(Cell(MaxData))
    /\ returned.key \notin DOMAIN container
    /\ container # EmptyMap
    /\ rwlock.writer = None

\* C19: reads have no side effects.  A GET request, with an id (get_by_id)
\* or without one (get_all), leaves every store with the same keys and the
\* same value under each key, and what it answers is what the store holds.
C19_ReadsChangeNothing ==
    [][req'.verb = "GET" =>
          /\ \A kind \in Kinds :
                /\ DOMAIN store'[kind] = DOMAIN store[kind]
                /\ \A k \in DOMAIN store[kind] : store'[kind][k] = store[kind][k]
          /\ deleted' = deleted
          /\ req'.path # None =>
                resp'.body = get_by_id(store'[req'.kind], unwrap(req'.path))
          /\ req'.path = None =>
                \A i \in DOMAIN resp'.body :
                    get_by_id(store'[req'.kind], resp'.body[i].id) = Some(resp'.body[i])]_vars

\* A GET by id was answered from a full store, which still holds the item.
C19_Witness ==
    /\ req.verb = "GET"
    /\ req.path # None
    /\ resp.status = OK
    /\ Cardinality(DOMAIN store[req.kind]) = NumIds
    /\ get_by_id(store[req.kind], req.id) = resp.body

\* C20: POST is create-or-conflict under concurrency.  The store starting
\* empty, once every POST request carrying id k has been answered, exactly
\* one of them was answered Created and every other one Conflict, and the
\* item stored under k is the one of the request answered Created.
C20_PostCreateOrConflict ==
    \A k \in Ids :
        LET posts == {c \in Handlers : post[c].pc # "idle" /\ post[c].id = k}
            created == {c \in posts : post[c].answer.status = CREATED}
        IN (posts # {} /\ \A c \in posts : post[c].pc = "done") =>
              /\ Cardinality(created) = 1
              /\ \A c \in posts \ created : post[c].answer.status = CONFLICT
              /\ \A c \in created : get_by_id(store[router], k) = post[c].answer.body

\* C21: PATCH never creates an item under concurrency.  Once a DELETE on a
\* stored id k has been answered NoContent, no PUT or POST on k following it,
\* and every PATCH and DELETE on k has been answered, k is absent from the
\* store: a PATCH does not put back an item deleted after its lookup.
C21_PatchNeverCreates ==
    \A k \in Ids :
        LET on_k == {c \in Handlers : patch[c].pc # "idle" /\ patch[c].id = k}
        IN (/\ \E c \in on_k : patch[c].verb = "DELETE" /\ patch[c].answer.status = NO_CONTENT
            /\ \E c \in on_k : patch[c].verb = "PATCH"
            /\ \A c \in on_k : patch[c].pc = "done")
           => k \notin DOMAIN store[router]

\* C22: no lost update between PATCHes.  When two PATCH requests on the same
\* stored todo, one carrying only text and the other only completed, have
\* both been answered Ok and no other request touched the todo, the stored
\* item has the text of the one and the completed value of the other.
C22_NoLostUpdate ==
    \A c1, c2 \in Handlers :
        (/\ c1 # c2
         /\ patch[c1].pc = "done" /\ patch[c2].pc = "done"
         /\ patch[c1].kind = "todos" /\ patch[c2].kind = "todos"
         /\ patch[c1].verb = "PATCH" /\ patch[c2].verb = "PATCH"
         /\ patch[c1].id = patch[c2].id
         /\ patch[c1].answer.status = OK /\ patch[c2].answer.status = OK
         /\ patch[c1].input.text # None /\ patch[c1].input.completed = None
         /\ patch[c2].input.text = None /\ patch[c2].input.completed # None
         /\ \A c3 \in Handlers \ {c1, c2} : patch[c3].id # patch[c1].id)
        => LET item == store["todos"][patch[c1].id]
           IN /\ item.text = unwrap(patch[c1].input.text)
              /\ item.completed = unwrap(patch[c2].input.completed)

\* C23: snapshot reads.  The online count a heartbeat response carries is the
\* number of session records in the map at the instant the counter is
\* loaded, also when a cleanup pass is between its retain and its store.
C23_SnapshotCount ==
    [][\A c \in Handlers :
          (hb[c].pc = "load" /\ hb'[c].pc = "idle") =>
              online_user_count' = Cardinality(DOMAIN user_activity_time)]_vars

\* C24: the Touch step.  A heartbeat whose session key is not in the map
\* inserts it and raises the counter by exactly 1; a heartbeat whose key is
\* in the map leaves the key set and the counter as they were; either way the
\* key's lastSeenAt becomes the current time and no other record changes.
C24_TouchStep ==
    [][\A c \in Handlers :
          /\ (hb[c].pc = "idle" /\ hb'[c].pc = "count") =>
                \E id \in DOMAIN user_activity_time' :
                    /\ DOMAIN user_activity_time' = DOMAIN user_activity_time \cup {id}
                    /\ user_activity_time'[id] = clock
                    /\ \A k \in DOMAIN user_activity_time \ {id} :
                          user_activity_time'[k] = user_activity_time[k]
                    /\ hb'[c].is_new <=> id \notin DOMAIN user_activity_time
                    /\ user_activity_count' = user_activity_count
          /\ (hb[c].pc = "count" /\ hb'[c].pc = "load") =>
                /\ user_activity_count' =
                      IF hb[c].is_new THEN user_activity_count + 1 ELSE user_activity_count
                /\ user_activity_time' = user_activity_time
                /\ user_activity_count' = Cardinality(DOMAIN user_activity_time')]_vars

\* A heartbeat has renewed a known session beside an older record and is
\* about to leave the counter as it is.
C24_Witness ==
    \E c \in Handlers :
        /\ hb[c].pc = "count" /\ ~hb[c].is_new
        /\ lock = "heartbeat"
        /\ user_activity_count = 2
        /\ \E k, j \in DOMAIN user_activity_time :
              /\ k # j
              /\ user_activity_time[k] = clock
              /\ user_activity_time[j] < clock

\* C25: a cleanup pass that finds no record whose lastSeenAt is the timeout
\* or more behind the time of the pass changes nothing: the records, their
\* lastSeenAt and the counter are the same after its retain and after the
\* end of the pass as they were before it.
C25_IdlePassChangesNothing ==
    [][/\ (cleanup.pc = "acquire" /\ cleanup'.pc = "store"
             /\ \A k \in DOMAIN user_activity_time :
                   ~(clock - user_activity_time[k] >= TIMEOUT_SECS)) =>
            /\ user_activity_time' = user_activity_time
            /\ user_activity_count' = user_activity_count
            /\ cleanup'.before_count = Cardinality(DOMAIN user_activity_time')
       /\ (cleanup.pc = "store" /\ cleanup'.pc = "tick"
             /\ cleanup.before_count = Cardinality(DOMAIN user_activity_time)) =>
            /\ user_activity_time' = user_activity_time
            /\ user_activity_count' = user_activity_count]_vars

\* The retain of a pass has found two records, neither of them stale, one of
\* them a second short of the timeout.
C25_Witness ==
    /\ cleanup.pc = "store"
    /\ cleanup.before_count = 2
    /\ Cardinality(DOMAIN user_activity_time) = 2
    /\ user_activity_count = 2
    /\ \E k \in DOMAIN user_activity_time : clock - user_activity_time[k] = TIMEOUT_SECS - 1

C27_SweepNeverStops ==
    /\ [](cleanup.pc \in {"tick", "acquire", "store"})
    /\ (cleanup.pc = "tick" /\ clock >= next_tick) ~> (cleanup.pc = "store")
    /\ (cleanup.pc = "store") ~> (cleanup.pc = "tick" /\ lock # "cleanup")
    /\ [][cleanup.pc = "tick" /\ cleanup'.pc # "tick" =>
             next_tick' = next_tick + INTERVAL_SECS]_vars

\* The second pass of the task is under way, a heartbeat having held the lock
\* since the first.
C27_Witness ==
    /\ cleanup.pc = "store"
    /\ next_tick = 2 * INTERVAL_SECS
    /\ touched # {}
    /\ \E c \in Handlers : hb[c].pc = "load"

C30_DeleteAllRefused ==
    [][/\ (req'.verb = "DELETE" /\ req'.path = None) =>
             /\ req'.kind = "rest"
             /\ resp' = Response(FORBIDDEN, None)
             /\ store' = store
       /\ \A kind \in Kinds :
             Cardinality(DOMAIN store[kind] \ DOMAIN store'[kind]) <= 1]_vars

\* A DELETE without an id was refused by a full store.
C30_Witness ==
    /\ req.verb = "DELETE"
    /\ req.path = None
    /\ resp.status = FORBIDDEN
    /\ Cardinality(DOMAIN store["rest"]) = NumIds

C32_LastSeenMonotonic ==
    [][/\ \A k \in DOMAIN user_activity_time \cap DOMAIN user_activity_time' :
             user_activity_time'[k] >= user_activity_time[k]
       /\ \A k \in DOMAIN user_activity_time' : user_activity_time'[k] <= clock']_vars

\* After the second cleanup pass has ended, a heartbeat has renewed a record
\* that was in the map, beside a record written earlier and still there.
C32_Witness ==
    /\ cleanup.pc = "tick"
    /\ next_tick = 2 * INTERVAL_SECS
    /\ \E c \in Handlers :
          /\ hb[c].pc = "count" /\ ~hb[c].is_new
          /\ \E k, j \in DOMAIN user_activity_time :
                /\ k # j
                /\ user_activity_time[k] = clock
                /\ 0 < user_activity_time[j] /\ user_activity_time[j] < clock

====
